---- MODULE Spec2Model ----
(***************************************************************************)
(* Session lifecycle of sigle's NewAuthProvider                           *)
(* (src/sigle/src/modules/auth/NewAuthContext.tsx) together with the two   *)
(* handlers of the login page that drive it                                *)
(* (src/sigle/src/pages/login.page.tsx).                                   *)
(*                                                                         *)
(* Optional values (TypeScript `T | undefined`, `string | null`) are       *)
(* sequences of length at most one: None is <<>>, Some(x) is <<x>>.        *)
(* Strings kept in localStorage are sequences of fields, so that the empty *)
(* string is the empty sequence and is falsy as in JavaScript.             *)
(***************************************************************************)
EXTENDS Integers, Sequences, FiniteSets, TLC

\* ------------------------------------------------------------------ bounds
\* number of loginWithCeramic invocations explored
MaxLogins == 2
\* number of logout invocations suspended at the same time
MaxLogouts == 1
\* number of router.push calls explored
MaxPushes == 2

\* ------------------------------------------------------------ value spaces
None == <<>>
Some(x) == <<x>>

Addresses == {"0xABC", "0xDEF"}

\* the accounts of the wallet on this device
WalletAddresses == {"0xABC"}

\* useAccount().status
Statuses == {"connecting", "reconnecting", "connected", "disconnected"}

\* The (status, address) pairs useAccount() reports: the address is present
\* when connected and while reconnecting (it is then the account restored from
\* the connector's persisted state), and absent otherwise.
WalletStates ==
  {w \in [status : Statuses, address : {None} \cup {Some(a) : a \in WalletAddresses}] :
     (w.status \in {"connected", "reconnecting"}) <=> (w.address /= None)}

\* How the Wallet Connector moves: a connection attempt ends connected or
\* disconnected, a connected wallet disconnects or switches account, and a
\* disconnected wallet starts connecting.
WalletStep(from, to) ==
  \/ from.status \in {"connecting", "reconnecting"}
       /\ to.status \in {"connected", "disconnected"}
  \/ from.status = "connected" /\ to.status = "disconnected"
  \/ from.status = "connected" /\ to.status = "connected"
       /\ to.address /= from.address
  \/ from.status = "disconnected" /\ to.status = "connecting"

\* JavaScript truthiness of a `string | null` read from storage: null and the
\* empty string are falsy
Truthy(o) == o /= None /\ Len(o[1]) > 0

\* The four records setState is ever given.
LoadingState ==
  [isLoading |-> TRUE, isAuthenticated |-> FALSE, user |-> None, didSession |-> None]

UnauthenticatedState ==
  [isLoading |-> FALSE, isAuthenticated |-> FALSE, user |-> None, didSession |-> None]

\* variant: the commit of a login leaves isLoading as it found it at mount
AuthenticatedState_StillLoading(addr, session) ==
  [isLoading |-> TRUE, isAuthenticated |-> TRUE,
   user |-> Some([address |-> addr]), didSession |-> session]

\* `user: { address }` holds whatever `address` is, so the field is optional
AuthenticatedState(addr, session) ==
  [isLoading |-> FALSE, isAuthenticated |-> TRUE,
   user |-> Some([address |-> addr]), didSession |-> session]

\* ------------------------------------------------------- DIDSession (handle)
\* A session handle: who it was authorized for (an optional address), when it
\* expires, and whether it carries a capability.
Handle(id, addr, exp, has) ==
  [id |-> id, address |-> addr, exp |-> exp, hasSession |-> has]

\* session.serialize(): the handle flattened to a string of four fields
Serialize(h) == <<"v1", h.id, h.address, h.exp, h.hasSession>>

\* strings DIDSession.fromSession can parse
WellFormed(s) == Len(s) = 5 /\ s[1] = "v1"

\* DIDSession.fromSession(str) on a well-formed string
FromSession(s) == Handle(s[2], s[3], s[4], s[5])

\* a string that is not a serialized session
Garbage == <<"{not-a-session">>

\* session.isExpired at instant t
IsExpired(h, t) == h.exp < t

\* The instants the clock distinguishes: before and after the expiry of the
\* sessions of InitialRecords.
Instants == {1, 2}

\* expiry of a session authorized on this page: it outlives the page
FreshExpiry == 1 + CHOOSE t \in Instants : \A u \in Instants : u <= t

\* ---------------------------------------------------------------- storage
SessionKey == "didsession"

\* localStorage.getItem(key): None stands for null
GetItem(store, key) == IF key \in DOMAIN store THEN Some(store[key]) ELSE None

\* localStorage.setItem(key, value)
SetItem(store, key, value) ==
  [k \in (DOMAIN store) \cup {key} |-> IF k = key THEN value ELSE store[k]]

\* What the device may hold under "didsession" when the page loads: an empty
\* string, a string that is no session, or a session serialized by an earlier
\* page (id 0) that expires once the clock passes instant 1.
InitialRecords ==
  {<<>>, Garbage} \cup
  {Serialize(Handle(0, Some(a), 1, hs)) : a \in Addresses, hs \in BOOLEAN}

VARIABLES
  state,          \* useState record of AuthProvider
  status,         \* useAccount().status, current
  address,        \* useAccount().address, current
  provider,       \* useProvider(): Some("provider") or None
  closureAddress, \* `address` as captured by useCallback(..., []) at first render
  mounted,        \* the mount effect has run
  localStorage,   \* device-local storage, a function from the keys present
  now,            \* clock
  login,          \* the loginWithCeramic invocations, by number
  logins,         \* number of loginWithCeramic invocations so far
  logout,         \* number of logout invocations suspended at the sign-out
  lastLogout,     \* how the last settled logout ended
  resetAt,        \* history, kept under HistorySpec only: the number of
                  \* logins invoked before the last logout committed
  signingState    \* useState of the Login page

\* The API server built by buildFastifyServer (src/unnamed/part_000)
VARIABLES
  nodeEnv,        \* config.NODE_ENV
  hits,           \* requests counted by the rate limiter in the current window
  req,            \* the request being served, None between requests
  reply,          \* the reply of the request being served, or of the last one
  captured        \* Sentry.captureException calls made for that request

\* A page wrapped in Protected (src/unnamed/part_001)
VARIABLES
  route,          \* the path the router is at
  view,           \* what Protected returned at its last render, "none" if unmounted
  pushed,         \* the path given to router.push, until the router gets there
  pushes          \* number of router.push calls so far

\* The legacy AuthProvider (src/sigle/src/modules/auth/AuthContext.tsx)
VARIABLES
  legacy,         \* its useState record
  userSession,    \* "signedIn", "pending" (isSignInPending) or "none"
  userData,       \* the object userSession.loadUserData() returns
  usernames,      \* localStorage, the "sigle-username-..." entries
  signIn,         \* where the mount effect and handleAuthSignIn stand
  namesJson,      \* the names the names API answered with last, if it did
  toast           \* the message of the last toast.error

coordinatorVars ==
  <<state, status, address, provider, closureAddress, mounted,
    localStorage, now, login, logins, logout, lastLogout, resetAt,
    signingState>>

serverVars == <<nodeEnv, hits, req, reply, captured>>

pageVars == <<route, view, pushed, pushes>>

legacyVars ==
  <<legacy, userSession, userData, usernames, signIn, namesJson, toast>>

\* what a step of the coordinator leaves alone, what a step of the server
\* does, and what a step of the page does
nonCoordinatorVars == <<serverVars, pageVars, legacyVars>>
nonServerVars == <<coordinatorVars, pageVars, legacyVars>>
nonPageVars ==
  <<status, address, provider, closureAddress, mounted, localStorage, now,
    login, logins, logout, lastLogout, resetAt, signingState, serverVars,
    legacyVars>>
nonLegacyVars == <<coordinatorVars, serverVars, pageVars>>

vars == <<coordinatorVars, serverVars, pageVars, legacyVars>>

\* the useState record of the legacy AuthProvider; isLegacy and user are
\* optional fields
LegacyState(loggingIn, user, isLegacy) ==
  [loggingIn |-> loggingIn, user |-> user, isLegacy |-> isLegacy]

\* the legacy AuthProvider is not rendered
LegacyOff ==
  /\ legacy = LegacyState(TRUE, None, None)
  /\ userSession = "none"
  /\ userData = None
  /\ usernames = <<>>
  /\ signIn = "unmounted"
  /\ namesJson = None
  /\ toast = None

\* no page wrapped in Protected is shown: the router is at the login page
PageOff ==
  /\ route = "/login"
  /\ view = "none"
  /\ pushed = None
  /\ pushes = 0

\* no API server takes part in the behaviours of the coordinator
ServerOff ==
  /\ nodeEnv = "production"
  /\ hits = 0
  /\ req = None
  /\ reply = None
  /\ captured = 0

\* ------------------------------------------------------------ invocations
\* who awaits or drops the promise of an invocation; "none" once nobody does
Callers == {"effect", "handleSignMessage", "consumer", "none"}

\* a loginWithCeramic invocation that has not been made yet
IdleLogin ==
  [pc |-> "idle", caller |-> "none", sessionStr |-> None, session |-> None,
   expired |-> FALSE, nonceCalls |-> 0, authorizeCalls |-> 0, request |-> None,
   setItems |-> 0]

\* The record of an invocation whose promise has settled as pc ("fulfilled" or
\* "rejected"): handleSignMessage awaits the promise and will resume on it; the
\* status effect and a bare call drop it, and the invocation is done.
Settled(rec, pc) ==
  IF rec.caller = "handleSignMessage"
    THEN [IdleLogin EXCEPT !.pc = pc, !.caller = rec.caller]
    ELSE [IdleLogin EXCEPT !.pc = "done"]

\* the options loadCeramicSession hands to DIDSession.authorize
Protocol == "https:"
Host == "app.sigle.io"
AuthorizeOptions(nonce) ==
  [resources |-> <<"ceramic://*">>, nonce |-> nonce,
   domain |-> <<Protocol, "//", Host>>]

\* variant: a new session is authorized on every login
NeedsAuthorize_Always(session, t) == TRUE

\* variant: the expiry of the stored session is not tested
NeedsAuthorize_NoExpiry(session, t) == session = None

\* `!session || (session.hasSession && session.isExpired)` at instant t
NeedsAuthorize(session, t) ==
  \/ session = None
  \/ session[1].hasSession /\ IsExpired(session[1], t)

\* variant: the address is not tested
PreconditionUnmet_ProviderOnly == provider = None

\* `!provider || !address` as loginWithCeramic evaluates it: on the values its
\* closure holds
PreconditionUnmet == provider = None \/ closureAddress = None

\* loginWithCeramic up to its first suspension, as invocation p made by caller c:
\* the record of the invocation, and the state it leaves
LoginCall(p, c) ==
  IF PreconditionUnmet
    THEN Settled([IdleLogin EXCEPT !.caller = c], "fulfilled")
    ELSE LET str == GetItem(localStorage, SessionKey)
         IN IF Truthy(str)
              THEN [IdleLogin EXCEPT !.pc = "fromSession", !.caller = c,
                                     !.sessionStr = str]
              ELSE [IdleLogin EXCEPT !.pc = "getNonce", !.caller = c,
                                     !.sessionStr = str, !.nonceCalls = 1]

\* the state loginWithCeramic leaves at its first suspension or early return
LoginCallState == IF PreconditionUnmet THEN UnauthenticatedState ELSE state

\* variant: a failed login resets the state
LoginRejectState_Reset == UnauthenticatedState

\* the state a rejected loginWithCeramic leaves: no setState is on that path
LoginRejectState == state

\* the variables neither loginWithCeramic nor its continuations touch
LoginFrame ==
  UNCHANGED <<status, address, provider, closureAddress, mounted, now, logout,
              lastLogout, resetAt, nonCoordinatorVars>>

\* variant: a new invocation cancels the invocations still suspended
StartLogin_CancelPrevious(c) ==
  /\ logins < MaxLogins
  /\ logins' = logins + 1
  /\ login' = [p \in 1..MaxLogins |->
                 IF p = logins + 1 THEN LoginCall(p, c)
                 ELSE IF login[p].pc \in {"fromSession", "getNonce", "authorize", "return"}
                        THEN [IdleLogin EXCEPT !.pc = "done"]
                        ELSE login[p]]
  /\ state' = LoginCallState

\* loginWithCeramic is invoked by caller c: nothing looks at the invocations
\* already in flight
StartLogin(c) ==
  /\ logins < MaxLogins
  /\ logins' = logins + 1
  /\ login' = [login EXCEPT ![logins + 1] = LoginCall(logins + 1, c)]
  /\ state' = LoginCallState

TypeOK ==
  /\ state.isLoading \in BOOLEAN /\ state.isAuthenticated \in BOOLEAN
  /\ state.user \in {None} \cup {Some([address |-> Some(a)]) : a \in Addresses}
  /\ Len(state.didSession) <= 1
  /\ [status |-> status, address |-> address] \in WalletStates
  /\ provider \in {None, Some("provider")}
  /\ closureAddress \in {None} \cup {Some(a) : a \in Addresses}
  /\ mounted \in BOOLEAN
  /\ DOMAIN localStorage \subseteq {SessionKey}
  /\ now \in Instants
  /\ logins \in 0..MaxLogins /\ DOMAIN login = 1..MaxLogins
  /\ logout \in 0..MaxLogouts
  /\ lastLogout \in {"none", "fulfilled", "rejected"}
  /\ resetAt \in 0..MaxLogins
  /\ signingState \in {"inactive", "active", "complete"}

\* State after the first render of AuthProvider and Login, before any effect.
Init ==
  /\ state = LoadingState
  /\ \E w \in WalletStates : status = w.status /\ address = w.address
  /\ provider \in {None, Some("provider")}
  /\ closureAddress = address
  /\ mounted = FALSE
  /\ \/ localStorage = <<>>
     \/ \E r \in InitialRecords : localStorage = [k \in {SessionKey} |-> r]
  /\ now = 1
  /\ login = [p \in 1..MaxLogins |-> IdleLogin]
  /\ logins = 0
  /\ logout = 0
  /\ lastLogout = "none"
  /\ resetAt = 0
  /\ signingState = "inactive"
  /\ ServerOff
  /\ PageOff
  /\ LegacyOff

\* useEffect(..., [status]) on mount
Mount ==
  /\ ~mounted
  /\ mounted' = TRUE
  /\ IF status = "connected"
       THEN StartLogin("effect")
       ELSE UNCHANGED <<state, login, logins>>
  /\ UNCHANGED <<status, address, provider, closureAddress,
                 localStorage, now, logout, lastLogout, resetAt,
                 signingState, nonCoordinatorVars>>

\* The Wallet Connector reports a new (status, address); useEffect(..., [status])
\* runs when the status differs from the previous render's.
WalletChange(w) ==
  /\ mounted
  /\ WalletStep([status |-> status, address |-> address], w)
  /\ status' = w.status
  /\ address' = w.address
  /\ IF w.status /= status /\ w.status = "connected"
       THEN StartLogin("effect")
       ELSE UNCHANGED <<state, login, logins>>
  /\ UNCHANGED <<provider, closureAddress, mounted, localStorage, now, logout,
                 lastLogout, resetAt, signingState, nonCoordinatorVars>>

\* a consumer of useNewAuth() calls loginWithCeramic()
LoginWithCeramic ==
  /\ mounted
  /\ StartLogin("consumer")
  /\ LoginFrame
  /\ UNCHANGED <<localStorage, signingState>>

\* Login page: the "Sign message" button, shown while isWagmiConnected
HandleSignMessage ==
  /\ mounted
  /\ status = "connected"
  /\ signingState' = "active"
  /\ StartLogin("handleSignMessage")
  /\ LoginFrame
  /\ UNCHANGED localStorage

\* loadCeramicSession resumes after `await DIDSession.fromSession(sessionStr)`
\* and runs to its next suspension: the expiry test, then either getCsrfToken()
\* or the return to loginWithCeramic.
FromSessionResolve(p) ==
  /\ login[p].pc = "fromSession"
  /\ WellFormed(login[p].sessionStr[1])
  /\ LET session == Some(FromSession(login[p].sessionStr[1]))
     IN login' = [login EXCEPT ![p] =
          IF NeedsAuthorize(session, now)
            THEN [@ EXCEPT !.pc = "getNonce", !.session = session,
                           !.expired = IsExpired(session[1], now),
                           !.nonceCalls = @ + 1]
            ELSE [@ EXCEPT !.pc = "return", !.session = session,
                           !.expired = IsExpired(session[1], now)]]
  /\ LoginFrame
  /\ UNCHANGED <<state, logins, localStorage, signingState>>

\* DIDSession.fromSession rejects on a string it cannot parse
FromSessionReject(p) ==
  /\ login[p].pc = "fromSession"
  /\ ~WellFormed(login[p].sessionStr[1])
  /\ login' = [login EXCEPT ![p] = Settled(@, "rejected")]
  /\ LoginFrame
  /\ UNCHANGED <<logins, localStorage, signingState>>
  /\ state' = LoginRejectState

\* `await getCsrfToken()` resolves: the domain is computed and
\* DIDSession.authorize is called
GetNonceResolve(p) ==
  /\ login[p].pc = "getNonce"
  /\ login' = [login EXCEPT ![p] =
       [@ EXCEPT !.pc = "authorize", !.authorizeCalls = @ + 1,
                 !.request = Some(AuthorizeOptions(p))]]
  /\ LoginFrame
  /\ UNCHANGED <<state, logins, localStorage, signingState>>

\* `await getCsrfToken()` rejects
GetNonceReject(p) ==
  /\ login[p].pc = "getNonce"
  /\ login' = [login EXCEPT ![p] = Settled(@, "rejected")]
  /\ LoginFrame
  /\ UNCHANGED <<logins, localStorage, signingState>>
  /\ state' = LoginRejectState

\* `await DIDSession.authorize(...)` resolves with a new session for the
\* address of the EthereumAuthProvider; it is serialized and stored
AuthorizeResolve(p) ==
  /\ login[p].pc = "authorize"
  /\ LET session == Handle(p, closureAddress, FreshExpiry, TRUE)
     IN /\ localStorage' = SetItem(localStorage, SessionKey, Serialize(session))
        /\ login' = [login EXCEPT ![p] =
             [@ EXCEPT !.pc = "return", !.session = Some(session),
                       !.setItems = @ + 1]]
  /\ LoginFrame
  /\ UNCHANGED <<state, logins, signingState>>

\* `await DIDSession.authorize(...)` rejects (the user declines to sign, the
\* network fails)
AuthorizeReject(p) ==
  /\ login[p].pc = "authorize"
  /\ login' = [login EXCEPT ![p] = Settled(@, "rejected")]
  /\ LoginFrame
  /\ UNCHANGED <<logins, localStorage, signingState>>
  /\ state' = LoginRejectState

\* loginWithCeramic resumes after `await loadCeramicSession(authProvider)` and
\* commits the authenticated state
LoginCommit(p) ==
  /\ login[p].pc = "return"
  /\ state' = AuthenticatedState(closureAddress, login[p].session)
  /\ login' = [login EXCEPT ![p] = Settled(@, "fulfilled")]
  /\ LoginFrame
  /\ UNCHANGED <<logins, localStorage, signingState>>

\* handleSignMessage resumes after `await loginWithCeramic()`: a rejection is
\* caught and shown as a toast; then, either way, the signing state is set to
\* complete
HandleSignMessageResume(p) ==
  /\ login[p].caller = "handleSignMessage"
  /\ login[p].pc \in {"fulfilled", "rejected"}
  /\ login' = [login EXCEPT ![p] = [IdleLogin EXCEPT !.pc = "done"]]
  /\ signingState' = "complete"
  /\ LoginFrame
  /\ UNCHANGED <<state, logins, localStorage>>

\* ------------------------------------------------------------------ logout
\* variant: the state is reset before nextAuthSignOut() is awaited
LogoutCallState_Eager == UnauthenticatedState

\* the state logout leaves at its suspension: its setState comes after the await
LogoutCallState == state

\* the state a logout leaves whose nextAuthSignOut() rejected
LogoutRejectState == state

\* variant: logout removes the stored session
LogoutStorage_Removed == <<>>

\* the storage logout leaves: it has no localStorage call
LogoutStorage == localStorage

\* logout up to its suspension: wagmiDisconnect() makes the Wallet Connector
\* drop the account, then nextAuthSignOut() is called and awaited
StartLogout ==
  /\ logout < MaxLogouts
  /\ state' = LogoutCallState
  /\ localStorage' = LogoutStorage
  /\ logout' = logout + 1
  /\ UNCHANGED <<lastLogout, resetAt>>
  /\ status' = "disconnected"
  /\ address' = None

\* a consumer of useNewAuth() calls logout()
Logout ==
  /\ mounted
  /\ StartLogout
  /\ UNCHANGED <<provider, closureAddress, mounted, now, login, logins,
                 signingState, nonCoordinatorVars>>

\* Login page: the "Change account" button, shown while isWagmiConnected:
\* disconnect(); logout()
HandleLogout ==
  /\ mounted
  /\ status = "connected"
  /\ StartLogout
  /\ UNCHANGED <<provider, closureAddress, mounted, now, login, logins,
                 signingState, nonCoordinatorVars>>

\* logout resumes after `await nextAuthSignOut()` and commits the reset state
SignOutCommit ==
  /\ logout > 0
  /\ logout' = logout - 1
  /\ lastLogout' = "fulfilled"
  /\ state' = UnauthenticatedState
  /\ UNCHANGED <<status, address, provider, closureAddress, mounted,
                 localStorage, now, login, logins, signingState,
                 nonCoordinatorVars>>

SignOutResolve ==
  /\ SignOutCommit
  /\ UNCHANGED resetAt

\* the same step, remembering how many logins had been invoked by then
SignOutResolveCounted ==
  /\ SignOutCommit
  /\ resetAt' = logins

\* `await nextAuthSignOut()` rejects: logout rejects before its setState
SignOutReject ==
  /\ logout > 0
  /\ logout' = logout - 1
  /\ lastLogout' = "rejected"
  /\ state' = LogoutRejectState
  /\ UNCHANGED <<status, address, provider, closureAddress, mounted,
                 localStorage, now, login, logins, resetAt, signingState,
                 nonCoordinatorVars>>

\* time passes
Tick ==
  /\ now + 1 \in Instants
  /\ now' = now + 1
  /\ UNCHANGED <<state, status, address, provider, closureAddress, mounted,
                 localStorage, login, logins, logout, lastLogout, resetAt,
                 signingState, nonCoordinatorVars>>

Next ==
  \/ Mount
  \/ \E w \in WalletStates : WalletChange(w)
  \/ LoginWithCeramic
  \/ HandleSignMessage
  \/ \E p \in 1..MaxLogins : FromSessionResolve(p)
  \/ \E p \in 1..MaxLogins : FromSessionReject(p)
  \/ \E p \in 1..MaxLogins : GetNonceResolve(p)
  \/ \E p \in 1..MaxLogins : GetNonceReject(p)
  \/ \E p \in 1..MaxLogins : AuthorizeResolve(p)
  \/ \E p \in 1..MaxLogins : AuthorizeReject(p)
  \/ \E p \in 1..MaxLogins : LoginCommit(p)
  \/ \E p \in 1..MaxLogins : HandleSignMessageResume(p)
  \/ Logout
  \/ HandleLogout
  \/ SignOutResolve
  \/ SignOutReject
  \/ Tick

Spec == Init /\ [][Next]_vars

\* The coordinator with the history variable resetAt kept up to date.
HistoryNext ==
  \/ Mount
  \/ \E w \in WalletStates : WalletChange(w)
  \/ LoginWithCeramic
  \/ HandleSignMessage
  \/ \E p \in 1..MaxLogins : FromSessionResolve(p)
  \/ \E p \in 1..MaxLogins : FromSessionReject(p)
  \/ \E p \in 1..MaxLogins : GetNonceResolve(p)
  \/ \E p \in 1..MaxLogins : GetNonceReject(p)
  \/ \E p \in 1..MaxLogins : AuthorizeResolve(p)
  \/ \E p \in 1..MaxLogins : AuthorizeReject(p)
  \/ \E p \in 1..MaxLogins : LoginCommit(p)
  \/ \E p \in 1..MaxLogins : HandleSignMessageResume(p)
  \/ Logout
  \/ HandleLogout
  \/ SignOutResolveCounted
  \/ SignOutReject
  \/ Tick

HistorySpec == Init /\ [][HistoryNext]_vars

\* ============================================================== API server
\* buildFastifyServer (src/unnamed/part_000): the hooks a request goes through,
\* in the order they are registered: CORS, rate limit, route, error handler.

\* config.NODE_ENV
Environments == {"development", "production", "test"}

\* config.APP_URL
AppUrl == "https://app.sigle.io"

\* The Origin header of a request: absent, the application's, and two others
Origins ==
  {None, Some(AppUrl), Some("https://app.sigle.io/"), Some("https://evil.example")}

\* variant: only the application's origin is accepted
CorsOrigin_AppUrlOnly(env, origin) ==
  IF origin = Some(AppUrl)
    THEN [error |-> None, allow |-> TRUE]
    ELSE [error |-> Some("Not allowed"), allow |-> FALSE]

\* the `origin` function given to FastifyCors: what it hands to its callback
CorsOrigin(env, origin) ==
  IF env = "development" \/ origin = Some(AppUrl) \/ origin = None
    THEN [error |-> None, allow |-> TRUE]
    ELSE [error |-> Some("Not allowed"), allow |-> FALSE]

\* the options given to FastifyRateLimit
RateLimitOptions(env) ==
  [max |-> IF env = "test" THEN 1000 ELSE 50, timeWindow |-> 60000]

\* an error as the error handler looks at it: its message and, for an error of
\* the schema validation, the validation details
Error(message, validation) == [message |-> message, validation |-> validation]

\* what a route can throw
RouteErrors ==
  {Error("boom", None), Error("body must have required property", Some("body"))}

\* the status a route may have set on the reply before it throws
RouteStatuses == {200, 429}

\* Sentry.captureException returns the id of the event it recorded
SentryId(n) == <<"event", n>>

\* a reply: its status code and what was sent, None while nothing is sent.
\* A body is <<"error", e>> for reply.send(error) and <<"json", object>> for
\* reply.send(object).
NewReply == [statusCode |-> 200, body |-> None]

\* a request at one of its stages
Request(origin, stage, error) == [origin |-> origin, stage |-> stage, error |-> error]

\* the stage of the request being served
Stage == IF req = None THEN "none" ELSE req[1].stage

\* a request arrives, the one before having been answered
Receive(o) ==
  /\ Stage \in {"none", "done"}
  /\ req' = Some(Request(o, "cors", None))
  /\ reply' = Some(NewReply)
  /\ captured' = 0
  /\ UNCHANGED <<nodeEnv, hits, nonServerVars>>

\* FastifyCors calls the origin function; an error given to the callback fails
\* the request
CorsCheck ==
  /\ Stage = "cors"
  /\ LET cb == CorsOrigin(nodeEnv, req[1].origin)
     IN req' = IF cb.error = None
                 THEN Some([req[1] EXCEPT !.stage = "rateLimit"])
                 ELSE Some([req[1] EXCEPT !.stage = "error",
                                          !.error = Some(Error(cb.error[1], None))])
  /\ UNCHANGED <<nodeEnv, hits, reply, captured, nonServerVars>>

\* FastifyRateLimit counts the request; past `max` in the window it sets the
\* status 429 and fails the request
RateLimit ==
  /\ Stage = "rateLimit"
  /\ LET max == RateLimitOptions(nodeEnv).max
         n == IF hits <= max THEN hits + 1 ELSE hits
     IN /\ hits' = n
        /\ IF n > max
             THEN /\ reply' = Some([reply[1] EXCEPT !.statusCode = 429])
                  /\ req' = Some([req[1] EXCEPT !.stage = "error",
                         !.error = Some(Error("Rate limit exceeded", None))])
             ELSE /\ reply' = reply
                  /\ req' = Some([req[1] EXCEPT !.stage = "route"])
  /\ UNCHANGED <<nodeEnv, captured, nonServerVars>>

\* the window of the rate limiter ends
WindowReset ==
  /\ hits > 0
  /\ hits' = 0
  /\ UNCHANGED <<nodeEnv, req, reply, captured, nonServerVars>>

\* the route answers
RouteReply ==
  /\ Stage = "route"
  /\ req' = Some([req[1] EXCEPT !.stage = "done"])
  /\ reply' = Some([reply[1] EXCEPT !.body = Some(<<"json", [success |-> TRUE]>>)])
  /\ UNCHANGED <<nodeEnv, hits, captured, nonServerVars>>

\* the route (or the validation of its schema) throws e, the status of the
\* reply being c
RouteThrow(e, c) ==
  /\ Stage = "route"
  /\ req' = Some([req[1] EXCEPT !.stage = "error", !.error = Some(e)])
  /\ reply' = Some([reply[1] EXCEPT !.statusCode = c])
  /\ UNCHANGED <<nodeEnv, hits, captured, nonServerVars>>
\* variant: every error is reported to Sentry and answered with 500
ErrorHandler_ReportAll(error, rep, n) ==
  [reply |-> [statusCode |-> 500,
              body |-> Some(<<"json", [error |-> "Internal server error",
                                       message |-> "Something went wrong please try again after some time",
                                       errorId |-> SentryId(n + 1)]>>)],
   captured |-> n + 1]

\* The function given to setErrorHandler, for an error, the reply as it stands
\* and the number n of Sentry reports made so far: the reply it sends and the
\* number of reports afterwards.
ErrorHandler(error, rep, n) ==
  IF rep.statusCode = 429
    THEN [reply |-> [rep EXCEPT !.body = Some(<<"error", error>>)],
          captured |-> n]
  ELSE IF error.validation /= None
    THEN [reply |-> [statusCode |-> 400, body |-> Some(<<"error", error>>)],
          captured |-> n]
  ELSE [reply |-> [statusCode |-> 500,
                   body |-> Some(<<"json", [error |-> "Internal server error",
                                            message |-> "Something went wrong please try again after some time",
                                            errorId |-> SentryId(n + 1)]>>)],
        captured |-> n + 1]

\* Fastify hands the error of a failed request to the error handler
HandleError ==
  /\ Stage = "error"
  /\ LET out == ErrorHandler(req[1].error[1], reply[1], captured)
     IN /\ reply' = Some(out.reply)
        /\ captured' = out.captured
  /\ req' = Some([req[1] EXCEPT !.stage = "done"])
  /\ UNCHANGED <<nodeEnv, hits, nonServerVars>>

\* no coordinator takes part in the behaviours of the server
CoordinatorOff ==
  /\ state = LoadingState
  /\ status = "disconnected" /\ address = None
  /\ provider = None /\ closureAddress = None
  /\ mounted = FALSE
  /\ localStorage = <<>>
  /\ now = 1
  /\ login = [p \in 1..MaxLogins |-> IdleLogin]
  /\ logins = 0
  /\ logout = 0
  /\ lastLogout = "none"
  /\ resetAt = 0
  /\ signingState = "inactive"

ServerInit ==
  /\ nodeEnv \in Environments
  /\ hits = 0
  /\ req = None
  /\ reply = None
  /\ captured = 0
  /\ CoordinatorOff
  /\ PageOff
  /\ LegacyOff

ServerNext ==
  \/ \E o \in Origins : Receive(o)
  \/ CorsCheck
  \/ RateLimit
  \/ WindowReset
  \/ RouteReply
  \/ \E e \in RouteErrors, c \in RouteStatuses : RouteThrow(e, c)
  \/ HandleError

ServerSpec == ServerInit /\ [][ServerNext]_vars

\* ================================================================ Protected
\* The pages of the application that are wrapped in Protected
ProtectedRoutes == {"/", "/settings"}

\* The values useNewAuth() can hand to Protected: every combination of the
\* two flags it reads, with and without a user and a session.
ContextValues ==
  [isLoading : BOOLEAN, isAuthenticated : BOOLEAN,
   user : {None, Some([address |-> Some("0xABC")])},
   didSession : {None, Some(Handle(1, Some("0xABC"), FreshExpiry, TRUE))}]

\* variant: the authentication is tested before the loading flag
Protected_AuthenticatedFirst(s) ==
  IF ~s.isAuthenticated THEN [view |-> "null", push |-> Some("/login")]
  ELSE IF s.isLoading THEN [view |-> "FullScreenLoading", push |-> None]
  ELSE [view |-> "children", push |-> None]

\* Protected, for the context value s: what it returns and the path it gives
\* to router.push, if any
Protected(s) ==
  IF s.isLoading THEN [view |-> "FullScreenLoading", push |-> None]
  ELSE IF ~s.isAuthenticated THEN [view |-> "null", push |-> Some("/login")]
  ELSE [view |-> "children", push |-> None]

\* Protected renders with the context value s while the router is at r
Render(s, r) ==
  IF r \in ProtectedRoutes
    THEN /\ view' = Protected(s).view
         /\ IF Protected(s).push /= None
              THEN /\ pushes < MaxPushes
                   /\ pushes' = pushes + 1
                   /\ pushed' = Protected(s).push
              ELSE UNCHANGED <<pushed, pushes>>
    ELSE /\ view' = "none"
         /\ UNCHANGED <<pushed, pushes>>

\* the provider commits a new Session State and its consumers render again
ContextUpdate(s) ==
  /\ s /= state
  /\ state' = s
  /\ Render(s, route)
  /\ UNCHANGED <<route, nonPageVars>>

\* the user opens a protected page
Navigate(r) ==
  /\ r /= route
  /\ route' = r
  /\ Render(state, r)
  /\ UNCHANGED <<state, nonPageVars>>

\* the router gets to the path it was given: Protected is no longer rendered
RouteChange ==
  /\ pushed /= None
  /\ route' = pushed[1]
  /\ pushed' = None
  /\ view' = "none"
  /\ UNCHANGED <<state, pushes, nonPageVars>>

ProtectedInit ==
  /\ state = LoadingState
  /\ route \in ProtectedRoutes \cup {"/login"}
  /\ view = IF route \in ProtectedRoutes THEN Protected(state).view ELSE "none"
  /\ pushed = None
  /\ pushes = 0
  /\ status = "disconnected" /\ address = None
  /\ provider = None /\ closureAddress = None
  /\ mounted = FALSE
  /\ localStorage = <<>>
  /\ now = 1
  /\ login = [p \in 1..MaxLogins |-> IdleLogin]
  /\ logins = 0
  /\ logout = 0
  /\ lastLogout = "none"
  /\ resetAt = 0
  /\ signingState = "inactive"
  /\ ServerOff
  /\ LegacyOff

ProtectedNext ==
  \/ \E s \in ContextValues : ContextUpdate(s)
  \/ \E r \in ProtectedRoutes : Navigate(r)
  \/ RouteChange

ProtectedSpec == ProtectedInit /\ [][ProtectedNext]_vars

\* ===================================================== legacy AuthProvider
\* Strings that go through localStorage are sequences: "" is <<>>.
UserNames == {<<"alice.btc">>, <<"bob.id">>}

\* what userSession.loadUserData() can return: the username is optional, and
\* so is profile.stxAddress.mainnet
UserDatas ==
  [username : {None, Some(<<"alice.btc">>)}, address : {None, Some("SP1")}]

\* what the names API can answer with
NamesAnswers == {<<>>, << <<"alice.btc">> >>, << <<"bob.id">>, <<"alice.btc">> >>}

\* the template string `sigle-username-${address}`
UsernameKey(addr) ==
  <<"sigle-username-", IF addr = None THEN "undefined" ELSE addr[1]>>

\* localStorage.removeItem(key)
RemoveItem(store, key) ==
  IF (DOMAIN store) \ {key} = {} THEN <<>>
  ELSE [k \in (DOMAIN store) \ {key} |-> store[k]]

\* variant: the username of the wallet data is kept when there is one
ResolveUsername_WalletFirst(ud, stored) ==
  IF Truthy(stored) /\ ud.username = None
    THEN [username |-> Some(stored[1]), remove |-> FALSE]
    ELSE [username |-> ud.username, remove |-> Truthy(stored)]

\* handleAuthSignIn, lines 101-108: for the user data ud and the entry read
\* from localStorage, the username it settles on and whether it removes the entry
ResolveUsername(ud, stored) ==
  IF Truthy(stored)
    THEN IF Some(stored[1]) = ud.username
           THEN [username |-> ud.username, remove |-> TRUE]
           ELSE [username |-> Some(stored[1]), remove |-> FALSE]
    ELSE [username |-> ud.username, remove |-> FALSE]

\* handleAuthSignIn from the localStorage lookup to its setState, ud being the
\* user data as it stands then; the object is changed in place
CompleteSignIn(ud) ==
  LET key == UsernameKey(ud.address)
      out == ResolveUsername(ud, GetItem(usernames, key))
      data == [ud EXCEPT !.username = out.username]
  IN /\ usernames' = IF out.remove THEN RemoveItem(usernames, key) ELSE usernames
     /\ userData' = data
     /\ legacy' = LegacyState(FALSE, Some(data), Some(ud.address = None))
     /\ signIn' = "idle"

\* handleAuthSignIn up to its first suspension: the names API is asked when
\* the wallet gave no username and the address is defined
HandleAuthSignIn ==
  IF userData.username = None /\ userData.address /= None
    THEN /\ signIn' = "fetch"
         /\ UNCHANGED <<legacy, userData, usernames>>
    ELSE CompleteSignIn(userData)

\* variant: a failed pending sign-in leaves the state as it is
SignInFailedState_Untouched == legacy

\* the state the catch of the mount effect sets
SignInFailedState == LegacyState(FALSE, None, None)

\* the mount effect
LegacyMount ==
  /\ signIn = "unmounted"
  /\ IF userSession = "signedIn"
       THEN HandleAuthSignIn
     ELSE IF userSession = "pending"
       THEN /\ signIn' = "pending"
            /\ UNCHANGED <<legacy, userData, usernames>>
     ELSE /\ legacy' = IF legacy.loggingIn THEN LegacyState(FALSE, None, None)
                       ELSE legacy
          /\ signIn' = "idle"
          /\ UNCHANGED <<userData, usernames>>
  /\ UNCHANGED <<userSession, namesJson, toast, nonLegacyVars>>

\* userSession.handlePendingSignIn() resolves: .then(handleAuthSignIn)
PendingResolve ==
  /\ signIn = "pending"
  /\ userSession' = "signedIn"
  /\ HandleAuthSignIn
  /\ UNCHANGED <<namesJson, toast, nonLegacyVars>>

\* userSession.handlePendingSignIn() rejects: the catch resets the state and
\* shows the message of the error
PendingReject ==
  /\ signIn = "pending"
  /\ userSession' = "none"
  /\ legacy' = SignInFailedState
  /\ toast' = Some("sign-in failed")
  /\ signIn' = "idle"
  /\ UNCHANGED <<userData, usernames, namesJson, nonLegacyVars>>

\* the request to the names API and its json() resolve
NamesResolve(names) ==
  /\ signIn = "fetch"
  /\ CompleteSignIn(IF Len(names) > 0
                      THEN [userData EXCEPT !.username = Some(names[1])]
                      ELSE userData)
  /\ namesJson' = Some(names)
  /\ UNCHANGED <<userSession, toast, nonLegacyVars>>

\* the request to the names API fails: the empty catch
NamesReject ==
  /\ signIn = "fetch"
  /\ CompleteSignIn(userData)
  /\ namesJson' = None
  /\ UNCHANGED <<userSession, toast, nonLegacyVars>>

\* authOptions.onFinish: the user has signed in through Connect
OnFinish ==
  /\ signIn = "idle"
  /\ userSession = "none"
  /\ userSession' = "signedIn"
  /\ HandleAuthSignIn
  /\ UNCHANGED <<namesJson, toast, nonLegacyVars>>

\* setUsername(username)
HandleSetUsername(u) ==
  /\ signIn /= "unmounted"
  /\ userSession = "signedIn"
  /\ legacy' = LegacyState(FALSE, Some([userData EXCEPT !.username = Some(u)]), None)
  /\ UNCHANGED <<userSession, userData, usernames, signIn, namesJson, toast,
                 nonLegacyVars>>

\* logout()
LegacyLogout ==
  /\ signIn /= "unmounted"
  /\ userSession' = "none"
  /\ legacy' = LegacyState(FALSE, None, None)
  /\ UNCHANGED <<userData, usernames, signIn, namesJson, toast, nonLegacyVars>>

LegacyInit ==
  /\ legacy = LegacyState(TRUE, None, None)
  /\ userSession \in {"signedIn", "pending", "none"}
  /\ userData \in UserDatas
  /\ \/ usernames = <<>>
     \/ \E v \in UserNames \cup {<<>>} :
          usernames = [k \in {UsernameKey(userData.address)} |-> v]
  /\ signIn = "unmounted"
  /\ namesJson = None
  /\ toast = None
  /\ CoordinatorOff
  /\ ServerOff
  /\ PageOff

LegacyNext ==
  \/ LegacyMount
  \/ PendingResolve
  \/ PendingReject
  \/ \E names \in NamesAnswers : NamesResolve(names)
  \/ NamesReject
  \/ OnFinish
  \/ \E u \in UserNames : HandleSetUsername(u)
  \/ LegacyLogout

LegacySpec == LegacyInit /\ [][LegacyNext]_vars

\* The promises of the mount effect settle, and the effect runs.
LegacyLiveSpec ==
  /\ LegacySpec
  /\ WF_vars(LegacyMount)
  /\ WF_vars(PendingResolve \/ PendingReject)
  /\ WF_vars((\E names \in NamesAnswers : NamesResolve(names)) \/ NamesReject)

\* ================================================================== claims
\* C1: in every reachable state, isAuthenticated = true implies that user is
\* present and carries an address.
C1_AuthenticatedHasUser ==
  state.isAuthenticated => (state.user /= None /\ state.user[1].address /= None)

\* C1 witness: an authenticated state committed by a login
C1_Witness ==
  /\ state.isAuthenticated
  /\ \E p \in 1..MaxLogins : login[p].pc = "done"

\* C2: a login the status effect starts while the wallet reports a provider
\* and an address does not take the Unauthenticated branch.
C2_EffectLoginUsesCurrentAddress ==
  [][(/\ logins' = logins + 1
      /\ status' = "connected"
      /\ status /= "connected"
      /\ provider /= None
      /\ address' /= None)
     => (login'[logins'].pc \in {"fromSession", "getNonce"} /\ state' = state)]_vars

\* C3: at every step it takes, a login that finds a stored session which is
\* not expired calls neither getNonce nor authorize, does not write the
\* record, and commits the authenticated state with the handle deserialized
\* from the record it read.
C3_ReuseStoredSession ==
  [][\A p \in 1..MaxLogins : login'[p] /= login[p] =>
       LET Reuse(l) ==
             /\ l.pc \in {"getNonce", "authorize", "return"}
             /\ Truthy(l.sessionStr)
             /\ WellFormed(l.sessionStr[1])
             /\ ~l.expired
       IN /\ Reuse(login'[p]) =>
               /\ login'[p].pc = "return"
               /\ login'[p].nonceCalls = 0
               /\ login'[p].authorizeCalls = 0
               /\ login'[p].request = None
               /\ login'[p].setItems = 0
               /\ login'[p].session = Some(FromSession(login'[p].sessionStr[1]))
          /\ (Reuse(login[p]) /\ login'[p].pc \in {"fulfilled", "done"}) =>
               /\ state'.isAuthenticated /\ ~state'.isLoading
               /\ state'.didSession = Some(FromSession(login[p].sessionStr[1]))
               /\ localStorage' = localStorage]_vars

\* C3 witness: the committed didSession is the handle of the stored record
\* (id 0: it was not authorized by any login of this page)
C3_Witness ==
  /\ state.isAuthenticated
  /\ state.didSession /= None
  /\ state.didSession[1].id = 0
  /\ GetItem(localStorage, SessionKey) = Some(Serialize(state.didSession[1]))

\* C4: at every step it takes, a login that finds no stored record, or a
\* stored session that is expired, calls getNonce once and authorize once with resources
\* ["ceramic://*"], writes the serialized result under "didsession" over
\* whatever was there, and commits the freshly authorized handle.
C4_AuthorizeWhenAbsentOrExpired ==
  [][\A p \in 1..MaxLogins : login'[p] /= login[p] =>
       LET Fresh(l) ==
             /\ l.pc \in {"getNonce", "authorize", "return"}
             /\ \/ ~Truthy(l.sessionStr)
                \/ /\ WellFormed(l.sessionStr[1])
                   /\ FromSession(l.sessionStr[1]).hasSession
                   /\ l.expired
       IN /\ Fresh(login'[p]) =>
               /\ login'[p].nonceCalls = 1
               /\ login'[p].authorizeCalls = IF login'[p].pc = "getNonce" THEN 0 ELSE 1
               /\ login'[p].pc /= "getNonce" =>
                    /\ login'[p].request /= None
                    /\ login'[p].request[1].resources = <<"ceramic://*">>
               /\ login'[p].setItems = IF login'[p].pc = "return" THEN 1 ELSE 0
               /\ login'[p].pc = "return" => login'[p].session[1].id = p
          /\ (Fresh(login[p]) /\ login[p].pc = "authorize" /\ login'[p].pc = "return") =>
               /\ DOMAIN localStorage' = (DOMAIN localStorage) \cup {"didsession"}
               /\ localStorage'["didsession"] = Serialize(login'[p].session[1])
          /\ (Fresh(login[p]) /\ login[p].pc = "return"
                /\ login'[p].pc \in {"fulfilled", "done"}) =>
               /\ state'.isAuthenticated
               /\ state'.didSession = login[p].session
               /\ state'.didSession[1].id = p]_vars

\* C4 witness: the committed didSession was authorized by a login of this page
\* and is the one held in storage
C4_Witness ==
  /\ state.isAuthenticated
  /\ state.didSession /= None
  /\ state.didSession[1].id > 0
  /\ GetItem(localStorage, SessionKey) = Some(Serialize(state.didSession[1]))

\* C5: every logout, from whatever state it is invoked, ends with the state
\* isLoading=false, isAuthenticated=false, user=undefined, didSession=undefined.
C5_LogoutAlwaysResets ==
  [][logout' < logout => state' = UnauthenticatedState]_vars

C7_AbsentWalletResolvesUnauthenticated ==
  [][(logins' = logins + 1 /\ (provider = None \/ address' = None))
     => (/\ state' = UnauthenticatedState
         /\ login'[logins'].pc \in {"fulfilled", "done"}
         /\ login'[logins'].sessionStr = None
         /\ login'[logins'].nonceCalls = 0)]_vars

\* C8: while the wallet status has never been connected (no login was started
\* by the status effect: this is the first invocation), a manual
\* loginWithCeramic, the wallet then reporting no address, resolves to
\* isLoading=false, isAuthenticated=false.
C8_NeverConnectedManualLogin ==
  [][(/\ logins' = logins + 1
      /\ logins = 0
      /\ address' = None)
     => (/\ login'[logins'].pc \in {"fulfilled", "done"}
         /\ ~state'.isLoading
         /\ ~state'.isAuthenticated)]_vars

\* C9: when getNonce, authorize or the deserialization fails, the login is
\* rejected without having written the state or the record, it makes no
\* further call, and no new login is started by the failure.
C9_FailedLoginLeavesNoTrace ==
  [][\A p \in 1..MaxLogins : login'[p] /= login[p] =>
       LET InFlight == {"fromSession", "getNonce", "authorize"}
           Rejected == login[p].pc \in InFlight
                         /\ login'[p].pc \in {"rejected", "done"}
       IN /\ login'[p].pc \in InFlight
               => (state' = state /\ localStorage' = localStorage)
          /\ Rejected
               => /\ state' = state
                  /\ localStorage' = localStorage
                  /\ login[p].setItems = 0
                  /\ logins' = logins
                  /\ \A r \in 1..MaxLogins : r /= p => login'[r] = login[r]
          /\ login[p].pc \in {"rejected", "done"}
               => /\ login'[p].pc \in {"rejected", "done"}
                  /\ login'[p].nonceCalls = 0
                  /\ login'[p].authorizeCalls = 0]_vars

\* C9 witness: a login was rejected while the state was authenticated and the
\* record held a session
C9_Witness ==
  /\ \E p \in 1..MaxLogins : login[p].pc = "rejected"
  /\ state.isAuthenticated
  /\ Truthy(GetItem(localStorage, SessionKey))

\* C10: every rejection of a loginWithCeramic started by the status effect or
\* by handleSignMessage is handed to a caller that awaits it and catches it.
C10_NoUnhandledRejection ==
  [][\A p \in 1..MaxLogins :
       (/\ login[p].pc \in {"fromSession", "getNonce", "authorize"}
        /\ login'[p].pc \in {"rejected", "done"}
        /\ login[p].caller \in {"effect", "handleSignMessage"})
         => (login'[p].pc = "rejected" /\ login'[p].caller = "handleSignMessage")]_vars

C12_ConcurrentLoginsLastWins ==
  [][/\ logins' = logins + 1 => login'[logins'].pc /= "idle"
     /\ \A p, q \in 1..MaxLogins :
          (p /= q /\ login'[p] /= login[p]) => login'[q] = login[q]
     /\ \A p \in 1..MaxLogins : login'[p] /= login[p] =>
          /\ (login[p].pc = "authorize" /\ login'[p].pc = "return") =>
               GetItem(localStorage', SessionKey) = Some(Serialize(login'[p].session[1]))
          /\ (login[p].pc = "return" /\ login'[p].pc \in {"fulfilled", "done"}) =>
               state' = AuthenticatedState(closureAddress, login[p].session)
          /\ login[p].pc = "return" => login'[p].pc \in {"fulfilled", "done"}]_vars

\* C12 witness: two logins have run side by side, each authorized its own
\* session; the second has committed and the first is about to commit over it,
\* while the record holds the session of the second
C12_Witness ==
  /\ login[1].pc = "return"
  /\ login[1].session[1].id = 1
  /\ login[2].pc \in {"fulfilled", "done"}
  /\ state.isAuthenticated
  /\ state.didSession /= None
  /\ state.didSession[1].id = 2
  /\ GetItem(localStorage, SessionKey) = Some(Serialize(state.didSession[1]))

\* C13: the origin check lets a request through exactly when NODE_ENV is
\* "development", or its origin is config.APP_URL, or it has no origin; any
\* other request fails with the error "Not allowed".
C13_CorsAcceptsExactly ==
  [][(req /= None /\ req[1].stage = "cors" /\ req' /= req) =>
       IF \/ nodeEnv = "development"
          \/ req[1].origin = Some(AppUrl)
          \/ req[1].origin = None
         THEN req'[1].stage = "rateLimit" /\ req'[1].error = None
         ELSE /\ req'[1].stage = "error"
              /\ req'[1].error = Some(Error("Not allowed", None))]_vars

\* C13 witness: outside development, a request of a foreign origin has failed
\* with "Not allowed"
C13_Witness ==
  /\ nodeEnv = "production"
  /\ req /= None
  /\ req[1].origin = Some("https://evil.example")
  /\ req[1].stage = "error"
  /\ req[1].error = Some(Error("Not allowed", None))

\* C14: the rate limiter never refuses a request when NODE_ENV is
\* "development"; when it is "test" it refuses a request exactly past 1000
\* requests in the window, and otherwise exactly past 50.
C14_RateLimitByEnvironment ==
  [][(Stage = "rateLimit" /\ req' /= req) =>
       LET refused == req'[1].stage = "error" /\ reply'[1].statusCode = 429
       IN /\ nodeEnv = "development" => ~refused
          /\ nodeEnv = "test" => (refused <=> hits' > 1000)
          /\ nodeEnv = "production" => (refused <=> hits' > 50)]_vars

\* C15: the Session State is always a whole record of one of three shapes:
\* Loading (isLoading, not authenticated, no user, no didSession),
\* Unauthenticated (neither flag, no user, no didSession) or Authenticated
\* (not loading, authenticated, user and didSession present); and isLoading,
\* once false, is never true again.
C15_ThreeShapes ==
  /\ [](\/ state = LoadingState
        \/ state = UnauthenticatedState
        \/ /\ DOMAIN state = {"isLoading", "isAuthenticated", "user", "didSession"}
           /\ ~state.isLoading /\ state.isAuthenticated
           /\ state.user /= None /\ state.didSession /= None)
  /\ [][~state.isLoading => ~state'.isLoading]_vars

\* C15 witness: a logout has committed the reset state and, after it, a login
\* has committed the authenticated record
C15_Witness ==
  /\ lastLogout = "fulfilled"
  /\ state.isAuthenticated /\ ~state.isLoading
  /\ state.user /= None /\ state.didSession /= None
  /\ logout = 0

\* C20: from the moment a logout has committed the reset state, the state is
\* unauthenticated unless a login invoked after that logout has committed: no
\* login invoked before it sets isAuthenticated=true.
C20_NoLoginAcrossLogout ==
  [][\A p \in 1..MaxLogins :
       (/\ lastLogout = "fulfilled"
        /\ p <= resetAt
        /\ login[p].pc = "return"
        /\ login'[p].pc \in {"fulfilled", "done"})
         => ~state'.isAuthenticated]_vars

\* C16: while Protected is rendered, it shows its children exactly when
\* isLoading=false and isAuthenticated=true; it shows the full-screen loading
\* view whenever isLoading=true, whatever isAuthenticated is, and a render with
\* isLoading=true calls router.push no more than a render with
\* isAuthenticated=true does; when isLoading=false and isAuthenticated=false
\* it has pushed "/login" and shows nothing.
C16_ProtectedGate ==
  /\ [](route \in ProtectedRoutes =>
          /\ (view = "children") <=> (~state.isLoading /\ state.isAuthenticated)
          /\ state.isLoading => view = "FullScreenLoading"
          /\ (~state.isLoading /\ ~state.isAuthenticated)
               => (view = "null" /\ pushed = Some("/login")))
  /\ [][(route' \in ProtectedRoutes /\ (state'.isLoading \/ state'.isAuthenticated))
          => (pushes' = pushes /\ pushed' = pushed)]_vars

\* C16 witness: Protected is rendered with isLoading=true and
\* isAuthenticated=true, and shows the loading view without a redirect
C16_Witness ==
  /\ route \in ProtectedRoutes
  /\ state.isLoading /\ state.isAuthenticated
  /\ view = "FullScreenLoading"
  /\ pushes = 0

\* C17: the error handler looks first at the status of the reply: with 429 it
\* sends the error itself and reports nothing; otherwise an error with
\* validation details is sent with status 400 and not reported; any other
\* error is reported to Sentry once and answered with status 500 and the
\* generic body carrying the id of the Sentry event, not the error.
C17_ErrorHandlerOrder ==
  [][(Stage = "error" /\ req' /= req) =>
       LET e == req[1].error[1]
           sent == reply'[1].body[1]
       IN IF reply[1].statusCode = 429
            THEN /\ reply'[1].statusCode = 429
                 /\ sent[1] = "error" /\ sent[2] = e
                 /\ captured' = captured
          ELSE IF e.validation /= None
            THEN /\ reply'[1].statusCode = 400
                 /\ sent[1] = "error" /\ sent[2] = e
                 /\ captured' = captured
          ELSE /\ captured' = captured + 1
               /\ reply'[1].statusCode = 500
               /\ sent[1] = "json"
               /\ DOMAIN sent[2] = {"error", "message", "errorId"}
               /\ sent[2].error = "Internal server error"
               /\ sent[2].message /= e.message
               /\ sent[2].errorId = SentryId(captured')]_vars

\* C17 witness: an error with validation details on a reply whose status is
\* 429 was sent back as it is, with status 429 and without a report
C17_Witness ==
  /\ Stage = "done"
  /\ req[1].error /= None
  /\ req[1].error[1].validation /= None
  /\ reply[1].statusCode = 429
  /\ reply[1].body = Some(<<"error", req[1].error[1]>>)
  /\ captured = 0

\* C18: the legacy AuthProvider has loggingIn=true until its mount effect has
\* acted. Signed in already, or once the pending sign-in completes,
\* handleAuthSignIn ends with loggingIn=false and a user, whether the names
\* lookup answered or failed; a pending sign-in that fails gives loggingIn=false,
\* no user and a toast; with neither, loggingIn=false and no user. On every
\* path loggingIn is eventually false for good.
C18_MountResolves ==
  /\ [](signIn = "unmounted" => legacy = LegacyState(TRUE, None, None))
  /\ [][/\ (/\ signIn' = "idle"
            /\ \/ signIn = "unmounted" /\ userSession = "signedIn"
               \/ signIn = "pending" /\ userSession' = "signedIn"
               \/ signIn = "fetch")
           => (~legacy'.loggingIn /\ legacy'.user /= None)
        /\ (signIn = "pending" /\ signIn' = "idle" /\ userSession' /= "signedIn")
           => (legacy' = LegacyState(FALSE, None, None) /\ toast' /= None)
        /\ (signIn = "unmounted" /\ signIn' /= signIn /\ userSession = "none")
           => legacy' = LegacyState(FALSE, None, None)]_vars
  /\ <>[](~legacy.loggingIn)

\* C18 witness: the pending sign-in has failed: not logging in, no user, and
\* the error shown
C18_Witness ==
  /\ signIn = "idle"
  /\ toast /= None
  /\ legacy = LegacyState(FALSE, None, None)
  /\ userSession = "none"

C21_SessionMatchesUser ==
  state.isAuthenticated =>
    /\ state.user /= None
    /\ state.didSession /= None
    /\ state.didSession[1].address = state.user[1].address

====
